---- MODULE Spec2Model ----
(***************************************************************************)
(* pglint: classification of the indexes of a Postgres schema into         *)
(* duplicate sets, redundant (prefix-subsumed) pairs and unused indexes,   *)
(* and the ordering of the report.                                         *)
(*                                                                         *)
(* Representation.  An *Index is a pointer: a position in `heap`, the      *)
(* sequence of Index structs allocated by loadIndexes.  A []*Index is a    *)
(* sequence of pointers.  A Go string that is only compared for equality   *)
(* is a TLA+ string; a string that is scanned (exprs) is a sequence of     *)
(* one-character strings; a string that is ordered with < (name,           *)
(* tableName) is a sequence of character codes.  A nil slice and an empty  *)
(* slice are both << >>: the code builds its slices with append on a nil   *)
(* slice, so an empty result is always nil.                                *)
(***************************************************************************)
EXTENDS Integers, Sequences, FiniteSets, TLC

\* Largest number of rows the catalog query returns.
MaxIndexes == 3

\* Largest number of rows the catalog query returns over PartitionRows.
MaxPartitionIndexes == 4

\* The most rows of the catalog where the report's sort of the duplicate sets
\* is checked, with the names of the indexes in every order.
MaxSortIndexes == 4

\* src/types.go: KiB, MiB
KiB == 1024
MiB == 1024 * KiB

\* ------------------------------------------------------------------------
\* Small helpers over sequences
\* ------------------------------------------------------------------------

Range(s) == {s[i] : i \in 1..Len(s)}

SeqsUpTo(S, n) == UNION {[1..k -> S] : k \in 0..n}

RECURSIVE Concat(_)
Concat(ss) == IF ss = << >> THEN << >> ELSE Head(ss) \o Concat(Tail(ss))

Swap(s, i, j) == [s EXCEPT ![i] = s[j], ![j] = s[i]]

\* Go's < on strings: bytewise lexicographic, a proper prefix is smaller.
RECURSIVE StrLess(_, _)
StrLess(a, b) ==
    IF b = << >> THEN FALSE
    ELSE IF a = << >> THEN TRUE
    ELSE IF Head(a) # Head(b) THEN Head(a) < Head(b)
    ELSE StrLess(Tail(a), Tail(b))

\* ------------------------------------------------------------------------
\* src/types.go
\* ------------------------------------------------------------------------

\* oidVector.equal
oidVectorEqual(vec, rhs) ==
    IF Len(vec) # Len(rhs) THEN FALSE
    ELSE \A i \in 1..Len(vec) : vec[i] = rhs[i]

\* int2Vector.equal
int2VectorEqual(vec, rhs) ==
    IF Len(vec) # Len(rhs) THEN FALSE
    ELSE \A i \in 1..Len(vec) : vec[i] = rhs[i]

\* ------------------------------------------------------------------------
\* src/index.go
\* ------------------------------------------------------------------------

\* Index.Kind
Kind(v) ==
    IF v.isPrimary THEN "P"
    ELSE IF v.isUnique THEN "U"
    ELSE "N"

\* A mutant of EquivalentTo: the predicates are not compared.
EquivalentToNoPred(v, u) ==
    IF v.oid = u.oid THEN TRUE
    ELSE /\ v.tableOID = u.tableOID
         /\ v.isUnique = u.isUnique
         /\ int2VectorEqual(v.keys, u.keys)
         /\ oidVectorEqual(v.collations, u.collations)
         /\ oidVectorEqual(v.classes, u.classes)
         /\ oidVectorEqual(v.options, u.options)
         /\ v.exprs = u.exprs

\* Index.EquivalentTo
EquivalentTo(v, u) ==
    IF v.oid = u.oid THEN TRUE
    ELSE /\ v.tableOID = u.tableOID
         /\ v.isUnique = u.isUnique
         /\ int2VectorEqual(v.keys, u.keys)
         /\ oidVectorEqual(v.collations, u.collations)
         /\ oidVectorEqual(v.classes, u.classes)
         /\ oidVectorEqual(v.options, u.options)
         /\ v.exprs = u.exprs
         /\ v.pred = u.pred

\* A Less that orders by name ascending.
indexesByNameAscending(a, b) == StrLess(a.name, b.name)

\* indexesByName.Less on two Index structs
indexesByNameLess(a, b) == StrLess(b.name, a.name)

\* ------------------------------------------------------------------------
\* src/main.go: loading
\* ------------------------------------------------------------------------

\* splitExprs: the loop over the runes of input, from position i on.
RECURSIVE splitExprsLoop(_, _, _, _, _)
splitExprsLoop(input, i, exprs, curr, nest) ==
    IF i > Len(input)
    THEN IF Len(curr) > 0 THEN Append(exprs, curr) ELSE exprs
    ELSE LET c == input[i] IN
         IF c = "(" THEN splitExprsLoop(input, i + 1, exprs, Append(curr, c), nest + 1)
         ELSE IF c = ")" THEN splitExprsLoop(input, i + 1, exprs, Append(curr, c), nest - 1)
         ELSE IF c = " " /\ Len(curr) = 0 THEN splitExprsLoop(input, i + 1, exprs, curr, nest)
         ELSE IF c = "," /\ nest = 0
              THEN splitExprsLoop(input, i + 1, Append(exprs, curr), << >>, nest)
         ELSE splitExprsLoop(input, i + 1, exprs, Append(curr, c), nest)

\* splitExprs
splitExprs(input) == splitExprsLoop(input, 1, << >>, << >>, 0)

\* tableCols.lookup: the name of the first column with the key, found or not.
RECURSIVE lookup(_, _)
lookup(columns, key) ==
    IF columns = << >> THEN [name |-> << >>, found |-> FALSE]
    ELSE IF Head(columns).key = key THEN [name |-> Head(columns).name, found |-> TRUE]
    ELSE lookup(Tail(columns), key)

\* loadIndexes, the loop that sets one index's attrs from its keys:
\* [err, attrs] after the keys from position i on.
RECURSIVE setAttrs(_, _, _, _, _)
setAttrs(index, cols, i, exprs, attrs) ==
    IF i > Len(index.keys) THEN [err |-> FALSE, attrs |-> attrs]
    ELSE LET key == index.keys[i] IN
         IF key = 0
         THEN IF Len(exprs) = 0 THEN [err |-> TRUE, attrs |-> << >>]
              ELSE setAttrs(index, cols, i + 1, Tail(exprs), Append(attrs, Head(exprs)))
         ELSE IF key > 0
         THEN LET r == lookup(cols, key) IN
              IF r.found THEN setAttrs(index, cols, i + 1, exprs, Append(attrs, r.name))
              ELSE [err |-> TRUE, attrs |-> << >>]
         ELSE setAttrs(index, cols, i + 1, exprs, Append(attrs, << >>))

\* loadIndexes: the rows of the catalog query become Index structs allocated
\* from pointer base + 1 on, each with its attrs set.  qerr: a query of the
\* function fails.  cols: what loadIndexTableColumns returns.
loadIndexes(rows, cols, base, qerr) ==
    LET res == [i \in 1..Len(rows) |->
                   setAttrs(rows[i], cols[rows[i].tableOID], 1,
                            splitExprs(rows[i].exprs), << >>)]
    IN  IF qerr \/ (\E i \in 1..Len(rows) : res[i].err)
        THEN [err |-> TRUE, structs |-> << >>, indexes |-> << >>]
        ELSE [err |-> FALSE,
              structs |-> [i \in 1..Len(rows) |-> [rows[i] EXCEPT !.attrs = res[i].attrs]],
              indexes |-> [i \in 1..Len(rows) |-> base + i]]

\* ------------------------------------------------------------------------
\* src/pprint.go: the detectors.  h is the heap, xs a slice of pointers.
\* ------------------------------------------------------------------------

\* bisectIndexes, the loop: xs is the slice, i the scan position (1-based),
\* n the count of values not yet found to satisfy pred; pred is
\* v.EquivalentTo for the pointer v.
\* A mutant of bisectLoop: pred reads indexes[0] anew at every test, so the
\* pivot changes when the first swap moves it.
RECURSIVE bisectLoopMovingPivot(_, _, _, _, _)
bisectLoopMovingPivot(h, xs, i, n, v) ==
    IF i > n THEN [xs |-> xs, n |-> n]
    ELSE IF EquivalentTo(h[xs[1]], h[xs[i]])
         THEN bisectLoopMovingPivot(h, Swap(xs, i, n), i, n - 1, v)
         ELSE bisectLoopMovingPivot(h, xs, i + 1, n, v)

\* A mutant of bisectLoop: i advances after a swap too, so the value swapped
\* in is never tested.
RECURSIVE bisectLoopSkip(_, _, _, _, _)
bisectLoopSkip(h, xs, i, n, v) ==
    IF i > n THEN [xs |-> xs, n |-> n]
    ELSE IF EquivalentTo(h[v], h[xs[i]])
         THEN bisectLoopSkip(h, Swap(xs, i, n), i + 1, n - 1, v)
         ELSE bisectLoopSkip(h, xs, i + 1, n, v)

RECURSIVE bisectLoop(_, _, _, _, _)
bisectLoop(h, xs, i, n, v) ==
    IF i > n THEN [xs |-> xs, n |-> n]
    ELSE IF EquivalentTo(h[v], h[xs[i]])
         THEN bisectLoop(h, Swap(xs, i, n), i, n - 1, v)
         ELSE bisectLoop(h, xs, i + 1, n, v)

\* A bisectIndexes whose loop does not test xs[0], the pivot.
bisectIndexesAfterPivot(h, xs, v) == bisectLoop(h, xs, 2, Len(xs), v)

\* bisectIndexes(xs, v.EquivalentTo): xs after the swaps and n; the first
\* result is xs[n:], the second xs[:n].
bisectIndexes(h, xs, v) == bisectLoop(h, xs, 1, Len(xs), v)

\* findDuplicateIndexSets, the loop from indexes = a[:n] on: the array and
\* the answer when it ends.
RECURSIVE duplicatesLoop(_, _, _, _)
duplicatesLoop(h, a, n, answer) ==
    IF n = 0 THEN [arr |-> a, answer |-> answer]
    ELSE LET r == bisectIndexes(h, SubSeq(a, 1, n), a[1])
             dups == [lo |-> r.n + 1, hi |-> n]
         IN  duplicatesLoop(h, r.xs \o SubSeq(a, n + 1, Len(a)), r.n,
                            IF dups.hi - dups.lo + 1 >= 2 THEN Append(answer, dups)
                            ELSE answer)

\* findDuplicateIndexSets on the slice a that allIndexes returned.
findDuplicateIndexSets(h, a) == duplicatesLoop(h, a, Len(a), << >>)

\* A mutant of isUnused: the cutoff is exclusive.
isUnusedStrict(ind, c) == ind.numScans < c

\* findUnusedIndexes, the closure handed to filterIndexes
isUnused(ind, c) == ind.numScans <= c

\* filterIndexes; pred is the set of the pointers for which pred returns true.
filterIndexes(xs, pred) ==
    LET keep(x) == x \in pred IN SelectSeq(xs, keep)

\* findUnusedIndexes, after allIndexes
findUnusedIndexes(h, xs, c) ==
    filterIndexes(xs, {p \in Range(xs) : isUnused(h[p], c)})

\* A mutant of prefixOf: equal attribute lists count as a prefix.
prefixOfNotStrict(ind1, ind2) ==
    IF Len(ind1.attrs) > Len(ind2.attrs) THEN FALSE
    ELSE \A i \in 1..Len(ind1.attrs) : ind1.attrs[i] = ind2.attrs[i]

\* prefixOf
prefixOf(ind1, ind2) ==
    IF Len(ind1.attrs) >= Len(ind2.attrs) THEN FALSE
    ELSE \A i \in 1..Len(ind1.attrs) : ind1.attrs[i] = ind2.attrs[i]

\* isRedundantIndex
isRedundantIndex(ind1, ind2) ==
    ind1.isUnique = ind2.isUnique /\ ind1.pred = ind2.pred /\ prefixOf(ind1, ind2)

\* A mutant of isCandidate: unique indexes are grouped too.
isCandidateNotPrimary(ind) == ~ind.isPrimary

\* findRedundantIndexPairs: the test that puts an index into indexesByTable
isCandidate(ind) == ~ind.isPrimary /\ ~ind.isUnique

\* findRedundantIndexPairs: indexesByTable[t], in the order of xs
indexesByTable(h, xs, t) ==
    LET keep(p) == isCandidate(h[p]) /\ h[p].tableOID = t IN SelectSeq(xs, keep)

\* findRedundantIndexPairs: the keys of indexesByTable
tablesOf(h, xs) == {h[xs[i]].tableOID : i \in {j \in 1..Len(xs) : isCandidate(h[xs[j]])}}

\* A mutant of firstRedundant: the scan does not stop at the first match.
RECURSIVE allRedundant(_, _, _, _)
allRedundant(h, group, ind1, j) ==
    IF j > Len(group) THEN << >>
    ELSE IF ind1 # group[j] /\ isRedundantIndex(h[ind1], h[group[j]])
         THEN << <<ind1, group[j]>> >> \o allRedundant(h, group, ind1, j + 1)
         ELSE allRedundant(h, group, ind1, j + 1)

\* findRedundantIndexPairs, the inner loop over ind2 from position j on:
\* the pair appended for ind1, if any.
RECURSIVE firstRedundant(_, _, _, _)
firstRedundant(h, group, ind1, j) ==
    IF j > Len(group) THEN << >>
    ELSE IF ind1 # group[j] /\ isRedundantIndex(h[ind1], h[group[j]])
         THEN << <<ind1, group[j]>> >>
         ELSE firstRedundant(h, group, ind1, j + 1)

\* findRedundantIndexPairs, the loop over ind1 for one table
pairsOfGroup(h, group) ==
    Concat([i \in 1..Len(group) |-> firstRedundant(h, group, group[i], 1)])

\* findRedundantIndexPairs, after allIndexes; order is the order in which
\* range yields the keys of the map indexesByTable.
findRedundantIndexPairs(h, xs, order) ==
    Concat([k \in 1..Len(order) |-> pairsOfGroup(h, indexesByTable(h, xs, order[k]))])

\* The orders in which range may yield the keys of a map with key set S.
MapOrders(S) ==
    {o \in [1..Cardinality(S) -> S] : \A i, j \in 1..Cardinality(S) : o[i] = o[j] => i = j}

\* ------------------------------------------------------------------------
\* src/pprint.go: the report
\* ------------------------------------------------------------------------

\* sort.Slice and sort.Sort on fewer than 7 elements: insertion sort.  less
\* is the set of pairs <<x, y>> of elements with less(x, y).
RECURSIVE insertionInner(_, _, _)
insertionInner(xs, j, less) ==
    IF j > 1 /\ <<xs[j], xs[j - 1]>> \in less
    THEN insertionInner(Swap(xs, j, j - 1), j - 1, less)
    ELSE xs

RECURSIVE insertionOuter(_, _, _)
insertionOuter(xs, i, less) ==
    IF i > Len(xs) THEN xs
    ELSE insertionOuter(insertionInner(xs, i, less), i + 1, less)

insertionSort(xs, less) == insertionOuter(xs, 2, less)

\* A mutant of isRelevant: unique indexes are not dropped.
isRelevantKeepsUnique(ind, minSize, minRows) ==
    IF ind.size < minSize THEN FALSE
    ELSE IF ind.numRows < minRows THEN FALSE
    ELSE TRUE

\* getRelevantUnusedIndexes, the closure handed to filterIndexes
isRelevant(ind, minSize, minRows) ==
    IF Kind(ind) = "U" THEN FALSE
    ELSE IF ind.size < minSize THEN FALSE
    ELSE IF ind.numRows < minRows THEN FALSE
    ELSE TRUE

\* A mutant of unusedLess: sizes ascending.
unusedLessAscending(a, b) ==
    IF a.isPrimary # b.isPrimary THEN b.isPrimary
    ELSE a.size < b.size

\* getRelevantUnusedIndexes, the closure handed to sort.Slice
unusedLess(a, b) ==
    IF a.isPrimary # b.isPrimary THEN b.isPrimary
    ELSE a.size > b.size

\* getRelevantUnusedIndexes when the cache is nil
relevantUnusedIndexes(h, xs, minSize, minRows) ==
    LET indexes == filterIndexes(xs, {p \in Range(xs) : isRelevant(h[p], minSize, minRows)})
        less == {pq \in Range(indexes) \X Range(indexes) : unusedLess(h[pq[1]], h[pq[2]])}
    IN  insertionSort(indexes, less)

\* A less that puts the smaller first index first.
pairLessAscending(h, a, b) == h[a[1]].size < h[b[1]].size

\* sortIndexPairsBySize, the closure handed to sort.Slice
pairLess(h, a, b) == h[a[1]].size > h[b[1]].size

\* sortIndexPairsBySize
sortIndexPairsBySize(h, a) ==
    LET less == {pq \in Range(a) \X Range(a) : pairLess(h, pq[1], pq[2])}
    IN  insertionSort(a, less)

\* sortIndexSetsByName, the closure handed to sort.Slice; ind1 and ind2 are
\* the first members of the two sets.
setLess(ind1, ind2) ==
    IF ind1.tableName = ind2.tableName
    THEN StrLess(ind1.name, ind2.name)
    ELSE ind1.tableName = ind2.tableName

\* ------------------------------------------------------------------------
\* The catalog: what the queries of loadIndexes can return
\* ------------------------------------------------------------------------

\* The columns of the tables (sqlSelectIndexTableColumnNames): both tables
\* have columns x, y, z at positions 1, 2, 3.
Columns ==
    << [name |-> <<"x">>, key |-> 1], [name |-> <<"y">>, key |-> 2],
       [name |-> <<"z">>, key |-> 3] >>

TableCols == [t \in {1, 2} |-> Columns]

\* pg_class.relname of a table: unique in the namespace the query selects.
TableName(t) == IF t = 1 THEN <<2, 1>> ELSE <<1, 2>>

\* A shape: the per-column vectors of an index and its expression text.
Shape(keys, collations, classes, options, exprs) ==
    [keys |-> keys, collations |-> collations, classes |-> classes,
     options |-> options, exprs |-> exprs]

\* One plain column of the table.
Col(k) == Shape(<<k>>, <<0>>, <<10>>, <<0>>, << >>)

\* Plain columns k1, k2, ...
Cols(ks) ==
    Shape(ks, [i \in 1..Len(ks) |-> 0], [i \in 1..Len(ks) |-> 10],
          [i \in 1..Len(ks) |-> 0], << >>)

Stats(numScans, size, numRows) ==
    [numScans |-> numScans, size |-> size, numRows |-> numRows]

\* A row of sqlSelectIndexInfo without its oid and name; kind is "N", "U"
\* or "P" (a primary key is unique).
Row(kind, tableOID, shape, pred, stats) ==
    [tableOID |-> tableOID, tableName |-> TableName(tableOID),
     numColumns |-> Len(shape.keys),
     isUnique |-> kind # "N", isPrimary |-> kind = "P",
     keys |-> shape.keys, collations |-> shape.collations,
     classes |-> shape.classes, options |-> shape.options,
     exprs |-> shape.exprs, pred |-> pred,
     numRows |-> stats.numRows, numScans |-> stats.numScans, size |-> stats.size,
     attrs |-> << >>]

DefaultStats == Stats(0, 5 * MiB, 100)

\* Rows that differ from Row("N", 1, Col(1), "", DefaultStats) in one of the
\* things EquivalentTo reads (or in isPrimary, which it does not read).
DupRows ==
    {Row(k, 1, Col(1), "", DefaultStats) : k \in {"N", "U", "P"}}
    \cup {Row("N", 2, Col(1), "", DefaultStats)}
    \cup {Row("N", 1, sh, "", DefaultStats) :
            sh \in {Col(2), Cols(<<1, 2>>),
                    Shape(<<1>>, <<100>>, <<10>>, <<0>>, << >>),
                    Shape(<<1>>, <<0>>, <<11>>, <<0>>, << >>),
                    Shape(<<1>>, <<0>>, <<10>>, <<1>>, << >>),
                    Shape(<<0>>, <<0>>, <<10>>, <<0>>, <<"f", "(", "x", ",", " ", "y", ")">>),
                    Shape(<<0>>, <<0>>, <<10>>, <<0>>, <<"g", "(", "x", ")">>)}}
    \cup {Row("N", 1, Col(1), "p", DefaultStats)}

\* Rows that fall into few classes of EquivalentTo: the same definition in
\* two tables, as a unique index and as the primary key, on two columns and
\* with a predicate.
PartitionRows ==
    {Row("N", t, Col(1), "", DefaultStats) : t \in {1, 2}}
    \cup {Row(k, 1, Col(1), "", DefaultStats) : k \in {"U", "P"}}
    \cup {Row("N", 1, Cols(<<1, 2>>), "", DefaultStats),
          Row("N", 1, Col(1), "p", DefaultStats)}

\* Rows whose attribute lists are prefixes of one another, over the things
\* findRedundantIndexPairs reads.
RedRows ==
    {Row("N", 1, Cols(ks), "", DefaultStats) :
        ks \in {<<1>>, <<1, 2>>, <<1, 3>>, <<1, 2, 3>>, <<2>>}}
    \cup {Row(k, 1, Cols(ks), "", DefaultStats) :
            k \in {"U", "P"}, ks \in {<<1>>, <<1, 2>>}}
    \cup {Row("N", 2, Cols(<<1, 2>>), "", DefaultStats),
          Row("N", 1, Cols(<<1, 2>>), "p", DefaultStats),
          Row("N", 1, Shape(<<1, 0>>, <<0, 0>>, <<10, 10>>, <<0, 0>>, <<"y">>), "", DefaultStats)}

\* Rows over the things findUnusedIndexes and getRelevantUnusedIndexes read.
UnusedRows ==
    {Row("N", 1, Col(1), "", Stats(0, sz, 100)) : sz \in {MiB - 1, 5 * MiB, 50 * MiB}}
    \cup {Row("P", 1, Col(1), "", Stats(0, sz, 100)) : sz \in {5 * MiB, 100 * MiB}}
    \cup {Row("U", 1, Col(1), "", Stats(0, 5 * MiB, 100))}
    \cup {Row("N", 1, Col(1), "", Stats(sc, 5 * MiB, 100)) : sc \in {10, 11}}
    \cup {Row("N", 1, Col(1), "", Stats(0, 5 * MiB, 9))}

\* pg_class.relname of the index with the oid: unique in the namespace.
IndexName(oid) == <<3, oid>>

\* The results the catalog query can give over a set of rows: at most max
\* rows in any order, the i-th with oid i.
Catalogs(rows, max) ==
    {[i \in 1..Len(c) |-> [oid |-> i, name |-> IndexName(i)] @@ c[i]] :
        c \in SeqsUpTo(rows, max)}

\* Rows of one table whose indexes on a prefix differ in size: the pairs
\* sortIndexPairsBySize sorts.
PairRows ==
    {Row("N", 1, Col(1), "", Stats(0, sz, 100)) : sz \in {MiB, 5 * MiB, 50 * MiB}}
    \cup {Row("N", 1, Cols(ks), "", DefaultStats) : ks \in {<<1, 2>>, <<1, 2, 3>>}}

\* Rows of a catalog whose indnatts may differ from the length of indkey:
\* scanIndex takes both as they come and loadIndexes makes attrs as long as
\* keys, so that len(attrs) differs from numColumns in the rows where they
\* differ.
MalformedRows ==
    {[Row("N", 1, Cols(ks), "", DefaultStats) EXCEPT !.numColumns = n] :
        ks \in {<<1>>, <<1, 2>>}, n \in {1, 2}}

\* Rows for the detectors run as goroutines: a duplicate, a used index, a
\* longer index.
GoRows ==
    {Row("N", 1, Col(1), "", Stats(sc, 5 * MiB, 100)) : sc \in {0, 11}}
    \cup {Row("N", 1, Cols(<<1, 2>>), "", DefaultStats)}

\* Rows of one definition on two tables: the duplicate sets of two tables.
SortRows == {Row("N", t, Col(1), "", DefaultStats) : t \in {1, 2}}

\* Rows of three classes of equivalent indexes: the passes of the loop of
\* findDuplicateIndexSets.
PassRows == SortRows \cup {Row("N", 1, Col(1), "p", DefaultStats)}

\* The k-th of the relnames given to the indexes where the order of the names
\* matters; every second one has the one before it as a proper prefix.
SortName(k) == IF k % 2 = 1 THEN <<k>> ELSE <<k - 1, k>>

\* The permutations of 1..n.
NameOrders(n) == {f \in [1..n -> 1..n] : \A i, j \in 1..n : f[i] = f[j] => i = j}

\* The results of the catalog query as in Catalogs, the relnames of the rows
\* in every order against the oids.
NamedCatalogs(rows, max) ==
    {[i \in 1..Len(c) |-> [oid |-> i, name |-> SortName(f[i])] @@ c[i]] :
        <<c, f>> \in UNION {{<<c, f>> : f \in NameOrders(Len(c))} :
                              c \in SeqsUpTo(rows, max)}}

\* ------------------------------------------------------------------------
\* State
\* ------------------------------------------------------------------------

VARIABLES
    catalog,        \* the rows sqlSelectIndexInfo returns
    cutoff,         \* flag -unusedcutoff
    minIndexSize,   \* flag -minindexsize, in MiB
    minIndexRows,   \* flag -minindexrows
    pc,             \* where main is
    heap,           \* the Index structs allocated by loadIndexes
    dbIndexes,      \* db.indexes
    numLoads,       \* how many times loadIndexes ran
    allIndexes,     \* main's allIndexes, rp.AllIndexes
    arr,            \* findDuplicateIndexSets: the array behind indexes
    numIndexes,     \* findDuplicateIndexSets: len(indexes), indexes = arr[:numIndexes]
    answer,         \* findDuplicateIndexSets: answer, slices [lo, hi] of arr
    duplicates,     \* main's duplicates, rp.DuplicateIndexSets
    unused,         \* main's unused, rp.UnusedIndexes
    redundants,     \* main's redundants, rp.RedundantIndexPairs
    relevantUnused, \* rp.relevantUnusedIndexes
    arrIsCache,     \* findDuplicateIndexSets: arr is the array behind db.indexes
    dpc,            \* the detectors run as goroutines: where each is
    result,         \* the detectors run as goroutines: each one's result in allIndexes
    dbReads,        \* the detectors run as goroutines: who has read db.indexes
    dbWrites        \* the detectors run as goroutines: who has assigned db.indexes

vars ==
    <<catalog, cutoff, minIndexSize, minIndexRows, pc, heap, dbIndexes, numLoads,
      allIndexes, arr, numIndexes, answer, duplicates, unused, redundants, relevantUnused,
      arrIsCache, dpc, result, dbReads, dbWrites>>

inputs == <<catalog, cutoff, minIndexSize, minIndexRows>>

\* The detectors of main.
Detectors == {"findDuplicateIndexSets", "findUnusedIndexes", "findRedundantIndexPairs"}

\* What only the detectors run as goroutines change.
goVars == <<dpc, result, dbReads, dbWrites>>

\* The state when main starts, for a set of catalogs and sets of flags.
InitOver(catalogs, cutoffs, minSizes, minRows) ==
    /\ catalog \in catalogs
    /\ cutoff \in cutoffs
    /\ minIndexSize \in minSizes
    /\ minIndexRows \in minRows
    /\ pc = "main"
    /\ heap = << >>
    /\ dbIndexes = << >>
    /\ numLoads = 0
    /\ allIndexes = << >>
    /\ arr = << >>
    /\ numIndexes = 0
    /\ answer = << >>
    /\ duplicates = << >>
    /\ unused = << >>
    /\ redundants = << >>
    /\ relevantUnused = << >>
    /\ arrIsCache = FALSE
    /\ dpc = [d \in Detectors |-> "allIndexes"]
    /\ result = [d \in Detectors |-> << >>]
    /\ dbReads = {}
    /\ dbWrites = {}

\* The state when main starts, for a set of catalog rows and sets of flags.
InitWith(rows, max, cutoffs, minSizes, minRows) ==
    InitOver(Catalogs(rows, max), cutoffs, minSizes, minRows)

Init == InitWith(DupRows, MaxIndexes, {10}, {1}, {10})

InitPartition == InitWith(PartitionRows, MaxPartitionIndexes, {10}, {1}, {10})

InitRed == InitWith(RedRows, MaxIndexes, {10}, {1}, {10})

InitUnused == InitWith(UnusedRows, MaxIndexes, {0, 10}, {1}, {10})

InitPairs == InitWith(PairRows, MaxIndexes, {10}, {1}, {10})

InitMalformed == InitWith(MalformedRows, MaxIndexes, {10}, {1}, {10})

InitGo == InitWith(GoRows, MaxIndexes, {10}, {1}, {10})

InitPasses == InitWith(PassRows, MaxPartitionIndexes, {10}, {1}, {10})

InitSort == InitOver(NamedCatalogs(SortRows, MaxSortIndexes), {10}, {1}, {10})

\* ------------------------------------------------------------------------
\* src/main.go: DB.allIndexes
\* ------------------------------------------------------------------------

\* A slice that is db.indexes itself.
sameSlice(xs) == [elems |-> xs, shared |-> TRUE]

\* DB.allIndexes, a := make([]*Index, len(db.indexes)); copy(a, db.indexes):
\* a slice of the elements of xs backed by an array of its own.
copySlice(xs) == [elems |-> xs, shared |-> FALSE]

\* DB.allIndexes: the error, the slice returned and what becomes of db.indexes
\* and the heap; loads is 1 when loadIndexes ran.
\* shared tells whether a is backed by the array behind db.indexes.
AllIndexes(qerr) ==
    IF dbIndexes = << >>
    THEN LET r == loadIndexes(catalog, TableCols, Len(heap), qerr) IN
         IF r.err
         THEN [err |-> TRUE, a |-> << >>, shared |-> FALSE, db |-> dbIndexes,
               heap |-> heap, loads |-> 1]
         ELSE [err |-> FALSE, a |-> copySlice(r.indexes).elems,
               shared |-> copySlice(r.indexes).shared, db |-> r.indexes,
               heap |-> heap \o r.structs, loads |-> 1]
    ELSE [err |-> FALSE, a |-> copySlice(dbIndexes).elems,
          shared |-> copySlice(dbIndexes).shared, db |-> dbIndexes,
          heap |-> heap, loads |-> 0]

\* The members of the slice s = [lo, hi] of arr.
Members(s) == SubSeq(arr, s.lo, s.hi)

\* ------------------------------------------------------------------------
\* Actions: main, statement by statement
\* ------------------------------------------------------------------------

\* main: allIndexes, err := db.allIndexes()
MainAllIndexes ==
    /\ pc = "main"
    /\ \E qerr \in BOOLEAN :
        LET r == AllIndexes(qerr) IN
        /\ heap' = r.heap
        /\ dbIndexes' = r.db
        /\ numLoads' = numLoads + r.loads
        /\ allIndexes' = r.a
        /\ pc' = IF r.err THEN "fatal" ELSE "findDuplicateIndexSets"
    /\ UNCHANGED <<inputs, goVars, arrIsCache,
                   arr, numIndexes, answer, duplicates, unused, redundants,
                   relevantUnused>>

\* findDuplicateIndexSets: indexes, err := db.allIndexes(); var answer
DuplicatesBegin ==
    /\ pc = "findDuplicateIndexSets"
    /\ \E qerr \in BOOLEAN :
        LET r == AllIndexes(qerr) IN
        /\ heap' = r.heap
        /\ dbIndexes' = r.db
        /\ numLoads' = numLoads + r.loads
        /\ arr' = r.a
        /\ arrIsCache' = r.shared
        /\ numIndexes' = Len(r.a)
        /\ pc' = IF r.err THEN "fatal" ELSE "bisectIndexes"
    /\ answer' = << >>
    /\ UNCHANGED <<inputs, goVars, allIndexes, duplicates, unused, redundants, relevantUnused>>

\* findDuplicateIndexSets: one pass of the loop, len(indexes) > 0
DuplicatesPass ==
    /\ pc = "bisectIndexes"
    /\ numIndexes > 0
    /\ LET r == bisectIndexes(heap, SubSeq(arr, 1, numIndexes), arr[1])
           dups == [lo |-> r.n + 1, hi |-> numIndexes]
       IN  /\ arr' = r.xs \o SubSeq(arr, numIndexes + 1, Len(arr))
           /\ answer' = IF dups.hi - dups.lo + 1 >= 2 THEN Append(answer, dups) ELSE answer
           /\ numIndexes' = r.n
    /\ dbIndexes' = IF arrIsCache THEN arr' ELSE dbIndexes
    /\ UNCHANGED <<inputs, goVars, arrIsCache,
                   pc, heap, numLoads, allIndexes, duplicates, unused,
                   redundants, relevantUnused>>

\* findDuplicateIndexSets: the loop ends, return answer, nil
DuplicatesReturn ==
    /\ pc = "bisectIndexes"
    /\ numIndexes = 0
    /\ duplicates' = answer
    /\ pc' = "findUnusedIndexes"
    /\ UNCHANGED <<inputs, goVars, arrIsCache,
                   heap, dbIndexes, numLoads, allIndexes, arr, numIndexes, answer,
                   unused, redundants, relevantUnused>>

\* main: unused, err := findUnusedIndexes(db, *unusedCutoff)
FindUnusedIndexes ==
    /\ pc = "findUnusedIndexes"
    /\ \E qerr \in BOOLEAN :
        LET r == AllIndexes(qerr) IN
        /\ heap' = r.heap
        /\ dbIndexes' = r.db
        /\ numLoads' = numLoads + r.loads
        /\ unused' = IF r.err THEN << >> ELSE findUnusedIndexes(r.heap, r.a, cutoff)
        /\ pc' = IF r.err THEN "fatal" ELSE "findRedundantIndexPairs"
    /\ UNCHANGED <<inputs, goVars, arrIsCache,
                   allIndexes, arr, numIndexes, answer, duplicates, redundants,
                   relevantUnused>>

\* main: redundants, err := findRedundantIndexPairs(db)
FindRedundantIndexPairs ==
    /\ pc = "findRedundantIndexPairs"
    /\ \E qerr \in BOOLEAN :
        LET r == AllIndexes(qerr) IN
        /\ heap' = r.heap
        /\ dbIndexes' = r.db
        /\ numLoads' = numLoads + r.loads
        /\ \E order \in MapOrders(tablesOf(r.heap, r.a)) :
              redundants' = IF r.err THEN << >>
                            ELSE findRedundantIndexPairs(r.heap, r.a, order)
        /\ pc' = IF r.err THEN "fatal" ELSE "FormatDuplicateIndexSets"
    /\ UNCHANGED <<inputs, goVars, arrIsCache,
                   allIndexes, arr, numIndexes, answer, duplicates, unused,
                   relevantUnused>>

\* sortIndexSetsByName, the first loop: sort.Sort(indexesByName(indexes)) on
\* the sets from position k on; a is the array behind the sets.
RECURSIVE sortMembers(_, _, _, _)
sortMembers(h, a, sets, k) ==
    IF k > Len(sets) THEN a
    ELSE LET s == sets[k]
             xs == SubSeq(a, s.lo, s.hi)
             less == {pq \in Range(xs) \X Range(xs) : indexesByNameLess(h[pq[1]], h[pq[2]])}
             sorted == insertionSort(xs, less)
         IN  sortMembers(h, SubSeq(a, 1, s.lo - 1) \o sorted \o SubSeq(a, s.hi + 1, Len(a)),
                         sets, k + 1)

\* sortIndexSetsByName, the sort.Slice of the sets; a is the array behind them.
sortSets(h, a, sets) ==
    LET less == {st \in Range(sets) \X Range(sets) :
                    setLess(h[a[st[1].lo]], h[a[st[2].lo]])}
    IN  insertionSort(sets, less)

\* reportPrinter.FormatDuplicateIndexSets
FormatDuplicateIndexSets ==
    /\ pc = "FormatDuplicateIndexSets"
    /\ IF Len(duplicates) = 0
       THEN UNCHANGED <<arr, duplicates>>
       ELSE LET a == sortMembers(heap, arr, duplicates, 1) IN
            /\ arr' = a
            /\ duplicates' = sortSets(heap, a, duplicates)
    /\ dbIndexes' = IF arrIsCache THEN arr' ELSE dbIndexes
    /\ pc' = "FormatRedundantIndexPairs"
    /\ UNCHANGED <<inputs, goVars, arrIsCache,
                   heap, numLoads, allIndexes, numIndexes, answer, unused,
                   redundants, relevantUnused>>

\* reportPrinter.FormatRedundantIndexPairs
FormatRedundantIndexPairs ==
    /\ pc = "FormatRedundantIndexPairs"
    /\ redundants' = IF Len(redundants) = 0 THEN redundants
                     ELSE sortIndexPairsBySize(heap, redundants)
    /\ pc' = "NumUnusedIndexes"
    /\ UNCHANGED <<inputs, goVars, arrIsCache,
                   heap, dbIndexes, numLoads, allIndexes, arr, numIndexes, answer,
                   duplicates, unused, relevantUnused>>

\* reportPrinter.getRelevantUnusedIndexes: the cache after the call
getRelevantUnusedIndexes ==
    IF relevantUnused = << >>
    THEN relevantUnusedIndexes(heap, unused, minIndexSize * 1024 * 1024, minIndexRows)
    ELSE relevantUnused

\* reportPrinter.NumUnusedIndexes
NumUnusedIndexes ==
    /\ pc = "NumUnusedIndexes"
    /\ relevantUnused' = getRelevantUnusedIndexes
    /\ pc' = "FormatUnusedIndexes"
    /\ UNCHANGED <<inputs, goVars, arrIsCache,
                   heap, dbIndexes, numLoads, allIndexes, arr, numIndexes, answer,
                   duplicates, unused, redundants>>

\* reportPrinter.FormatUnusedIndexes
FormatUnusedIndexes ==
    /\ pc = "FormatUnusedIndexes"
    /\ relevantUnused' = getRelevantUnusedIndexes
    /\ pc' = "done"
    /\ UNCHANGED <<inputs, goVars, arrIsCache,
                   heap, dbIndexes, numLoads, allIndexes, arr, numIndexes, answer,
                   duplicates, unused, redundants>>

Next ==
    \/ MainAllIndexes
    \/ DuplicatesBegin
    \/ DuplicatesPass
    \/ DuplicatesReturn
    \/ FindUnusedIndexes
    \/ FindRedundantIndexPairs
    \/ FormatDuplicateIndexSets
    \/ FormatRedundantIndexPairs
    \/ NumUnusedIndexes
    \/ FormatUnusedIndexes

\* ------------------------------------------------------------------------
\* Actions: the detectors of main run as goroutines on the one DB
\* ------------------------------------------------------------------------

\* What the steps of a detector in allIndexes leave alone.
results == <<arr, numIndexes, answer, duplicates, unused, redundants, arrIsCache>>

\* DB.allIndexes in the detector d: if db.indexes == nil
GoAllIndexes(d) ==
    /\ pc = "findDuplicateIndexSets"
    /\ dpc[d] = "allIndexes"
    /\ dbReads' = dbReads \cup {d}
    /\ dpc' = [dpc EXCEPT ![d] = IF dbIndexes = << >> THEN "loadIndexes" ELSE "copy"]
    /\ UNCHANGED <<inputs, pc, heap, dbIndexes, numLoads, allIndexes, results,
                   relevantUnused, result, dbWrites>>

\* DB.allIndexes in the detector d: result, err := loadIndexes(...); an error
\* goes up to main, which ends the process.
GoLoadIndexes(d) ==
    /\ pc = "findDuplicateIndexSets"
    /\ dpc[d] = "loadIndexes"
    /\ \E qerr \in BOOLEAN :
        LET r == loadIndexes(catalog, TableCols, Len(heap), qerr) IN
        /\ heap' = heap \o r.structs
        /\ result' = [result EXCEPT ![d] = r.indexes]
        /\ dpc' = [dpc EXCEPT ![d] = IF r.err THEN "fatal" ELSE "store"]
        /\ pc' = IF r.err THEN "fatal" ELSE pc
    /\ numLoads' = numLoads + 1
    /\ UNCHANGED <<inputs, dbIndexes, allIndexes, results, relevantUnused, dbReads,
                   dbWrites>>

\* DB.allIndexes in the detector d: db.indexes = result
GoStore(d) ==
    /\ pc = "findDuplicateIndexSets"
    /\ dpc[d] = "store"
    /\ dbIndexes' = result[d]
    /\ dbWrites' = dbWrites \cup {d}
    /\ dpc' = [dpc EXCEPT ![d] = "copy"]
    /\ UNCHANGED <<inputs, pc, heap, numLoads, allIndexes, results, relevantUnused,
                   result, dbReads>>

\* findDuplicateIndexSets from the copy of db.indexes on
GoFindDuplicateIndexSets ==
    /\ pc = "findDuplicateIndexSets"
    /\ dpc["findDuplicateIndexSets"] = "copy"
    /\ LET a == copySlice(dbIndexes)
           r == findDuplicateIndexSets(heap, a.elems)
       IN  /\ arr' = r.arr
           /\ arrIsCache' = a.shared
           /\ answer' = r.answer
           /\ duplicates' = r.answer
           /\ dbIndexes' = IF a.shared THEN r.arr ELSE dbIndexes
    /\ numIndexes' = 0
    /\ dbReads' = dbReads \cup {"findDuplicateIndexSets"}
    /\ dpc' = [dpc EXCEPT !["findDuplicateIndexSets"] = "done"]
    /\ UNCHANGED <<inputs, pc, heap, numLoads, allIndexes, unused, redundants,
                   relevantUnused, result, dbWrites>>

\* findUnusedIndexes from the copy of db.indexes on
GoFindUnusedIndexes ==
    /\ pc = "findDuplicateIndexSets"
    /\ dpc["findUnusedIndexes"] = "copy"
    /\ unused' = findUnusedIndexes(heap, copySlice(dbIndexes).elems, cutoff)
    /\ dbReads' = dbReads \cup {"findUnusedIndexes"}
    /\ dpc' = [dpc EXCEPT !["findUnusedIndexes"] = "done"]
    /\ UNCHANGED <<inputs, pc, heap, dbIndexes, numLoads, allIndexes, arr, numIndexes,
                   answer, duplicates, redundants, arrIsCache, relevantUnused, result,
                   dbWrites>>

\* findRedundantIndexPairs from the copy of db.indexes on
GoFindRedundantIndexPairs ==
    /\ pc = "findDuplicateIndexSets"
    /\ dpc["findRedundantIndexPairs"] = "copy"
    /\ \E order \in MapOrders(tablesOf(heap, copySlice(dbIndexes).elems)) :
          redundants' = findRedundantIndexPairs(heap, copySlice(dbIndexes).elems, order)
    /\ dbReads' = dbReads \cup {"findRedundantIndexPairs"}
    /\ dpc' = [dpc EXCEPT !["findRedundantIndexPairs"] = "done"]
    /\ UNCHANGED <<inputs, pc, heap, dbIndexes, numLoads, allIndexes, arr, numIndexes,
                   answer, duplicates, unused, arrIsCache, relevantUnused, result,
                   dbWrites>>

\* main has the results of the three detectors and goes on to the report.
GoJoin ==
    /\ pc = "findDuplicateIndexSets"
    /\ \A d \in Detectors : dpc[d] = "done"
    /\ pc' = "FormatDuplicateIndexSets"
    /\ UNCHANGED <<inputs, heap, dbIndexes, numLoads, allIndexes, results,
                   relevantUnused, goVars>>

NextGo ==
    \/ MainAllIndexes
    \/ \E d \in Detectors : GoAllIndexes(d)
    \/ \E d \in Detectors : GoLoadIndexes(d)
    \/ \E d \in Detectors : GoStore(d)
    \/ GoFindDuplicateIndexSets
    \/ GoFindUnusedIndexes
    \/ GoFindRedundantIndexPairs
    \/ GoJoin
    \/ FormatDuplicateIndexSets
    \/ FormatRedundantIndexPairs
    \/ NumUnusedIndexes
    \/ FormatUnusedIndexes

Spec == Init /\ [][Next]_vars

SpecGo == InitGo /\ [][NextGo]_vars

\* main runs on: a statement that can be executed is executed in the end.
SpecFair == InitPasses /\ [][Next]_vars /\ WF_vars(Next)

SpecPartition == InitPartition /\ [][Next]_vars

SpecRed == InitRed /\ [][Next]_vars

SpecUnused == InitUnused /\ [][Next]_vars

SpecPairs == InitPairs /\ [][Next]_vars

SpecMalformed == InitMalformed /\ [][Next]_vars

SpecSort == InitSort /\ [][Next]_vars

\* ------------------------------------------------------------------------
\* Properties
\* ------------------------------------------------------------------------

\* The pointers of the collection the detectors work on.
Loaded == Range(dbIndexes)

\* main has the result of findDuplicateIndexSets.
HasDuplicates ==
    pc \in {"findUnusedIndexes", "findRedundantIndexPairs", "FormatDuplicateIndexSets",
            "FormatRedundantIndexPairs", "NumUnusedIndexes", "FormatUnusedIndexes", "done"}

\* main has the result of findUnusedIndexes.
HasUnused ==
    pc \in {"findRedundantIndexPairs", "FormatDuplicateIndexSets",
            "FormatRedundantIndexPairs", "NumUnusedIndexes", "FormatUnusedIndexes", "done"}

\* main has the result of findRedundantIndexPairs.
HasRedundants ==
    pc \in {"FormatDuplicateIndexSets", "FormatRedundantIndexPairs", "NumUnusedIndexes",
            "FormatUnusedIndexes", "done"}

\* The report has the result of getRelevantUnusedIndexes.
HasRelevantUnused == pc \in {"FormatUnusedIndexes", "done"}

\* The pointers in the set s of duplicates.
MemberSet(s) == Range(Members(s))

\* Two Index structs agree in everything a definition of an index states.
SameDefinition(a, b) ==
    /\ a.tableOID = b.tableOID
    /\ a.isUnique = b.isUnique
    /\ a.keys = b.keys
    /\ a.collations = b.collations
    /\ a.classes = b.classes
    /\ a.options = b.options
    /\ a.exprs = b.exprs
    /\ a.pred = b.pred

\* C1: the sets returned by findDuplicateIndexSets are pairwise disjoint, each
\* has at least 2 members, and any two members of one set are equivalent
\* (EquivalentTo) and so of the same table.
C1_DuplicateSetsPartition ==
    /\ \A i, j \in 1..Len(duplicates) :
          i # j => MemberSet(duplicates[i]) \cap MemberSet(duplicates[j]) = {}
    /\ \A i \in 1..Len(duplicates) :
          /\ Cardinality(MemberSet(duplicates[i])) >= 2
          /\ Cardinality(MemberSet(duplicates[i])) = Len(Members(duplicates[i]))
          /\ \A p, q \in MemberSet(duplicates[i]) :
                /\ EquivalentTo(heap[p], heap[q])
                /\ heap[p].tableOID = heap[q].tableOID

\* C1, the case: two sets were returned, and an index left out of one of them
\* differs from its members in the table alone.
C1_Witness ==
    /\ HasDuplicates
    /\ Len(duplicates) = 2
    /\ \E p \in MemberSet(duplicates[1]), q \in Loaded \ MemberSet(duplicates[1]) :
          /\ heap[p].tableOID # heap[q].tableOID
          /\ SameDefinition([heap[p] EXCEPT !.tableOID = heap[q].tableOID], heap[q])

\* C2: any two distinct equivalent indexes of the collection are together in
\* exactly one returned set, and an index equivalent to no other index is in
\* no returned set.
C2_DuplicateSetsComplete ==
    HasDuplicates =>
        /\ \A p, q \in Loaded :
              (p # q /\ EquivalentTo(heap[p], heap[q])) =>
                  Cardinality({i \in 1..Len(duplicates) :
                                  {p, q} \subseteq MemberSet(duplicates[i])}) = 1
        /\ \A p \in Loaded :
              (\A q \in Loaded : q # p => ~EquivalentTo(heap[p], heap[q])) =>
                  \A i \in 1..Len(duplicates) : p \notin MemberSet(duplicates[i])

\* C2, the case: three equivalent indexes and one equivalent to no other;
\* one set was returned.
C2_Witness ==
    /\ HasDuplicates
    /\ Cardinality(Loaded) = 4
    /\ Len(duplicates) = 1
    /\ Cardinality(MemberSet(duplicates[1])) = 3
    /\ \E p \in Loaded : \A q \in Loaded : q # p => ~EquivalentTo(heap[p], heap[q])

\* C3: on the indexes findDuplicateIndexSets has compared (pairwise distinct
\* oids) EquivalentTo is reflexive, symmetric and transitive, and between
\* distinct indexes it holds exactly when tableOID, isUnique, keys,
\* collations, classes, options, exprs and pred are all equal.
C3_EquivalentToIsEquivalence ==
    pc = "findUnusedIndexes" =>
        /\ \A p, q \in 1..Len(heap) : p # q => heap[p].oid # heap[q].oid
        /\ \A p \in 1..Len(heap) : EquivalentTo(heap[p], heap[p])
        /\ \A p, q \in 1..Len(heap) :
              EquivalentTo(heap[p], heap[q]) <=> EquivalentTo(heap[q], heap[p])
        /\ \A p, q, r \in 1..Len(heap) :
              (EquivalentTo(heap[p], heap[q]) /\ EquivalentTo(heap[q], heap[r]))
                  => EquivalentTo(heap[p], heap[r])
        /\ \A p, q \in 1..Len(heap) :
              p # q => (EquivalentTo(heap[p], heap[q]) <=> SameDefinition(heap[p], heap[q]))

\* C3, the case: findDuplicateIndexSets compared three indexes, two of them
\* equivalent and the third with key vectors of another length.
C3_Witness ==
    /\ HasDuplicates
    /\ Len(heap) = 3
    /\ \E p, q, r \in 1..Len(heap) :
          /\ p # q
          /\ EquivalentTo(heap[p], heap[q])
          /\ ~EquivalentTo(heap[q], heap[r])
          /\ Len(heap[q].keys) # Len(heap[r].keys)

\* Position of the pointer p in the slice xs (0 when it is not in it).
PosIn(xs, p) == IF \E i \in 1..Len(xs) : xs[i] = p
                THEN CHOOSE i \in 1..Len(xs) : xs[i] = p
                ELSE 0

\* The first elements of the pairs with second elements, as a set.
PairSet(pairs) == Range(pairs)

\* ind1 has a strictly shorter attribute list than ind2, and ind2's begins
\* with it.
StrictPrefix(a, b) ==
    /\ Len(a.attrs) < Len(b.attrs)
    /\ \A i \in 1..Len(a.attrs) : a.attrs[i] = b.attrs[i]

\* C4: no index with isPrimary or isUnique is the first or the second element
\* of a pair returned by findRedundantIndexPairs.
C4_NoUniqueInRedundantPair ==
    \A k \in 1..Len(redundants) :
        \A e \in 1..2 :
            /\ ~heap[redundants[k][e]].isPrimary
            /\ ~heap[redundants[k][e]].isUnique

\* C4, the case: a pair was returned although the collection has a unique or
\* primary index whose attributes are a strict prefix of another index of its
\* table, or begin with those of another.
C4_Witness ==
    /\ HasRedundants
    /\ Len(redundants) >= 1
    /\ \E p, q \in Loaded :
          /\ heap[p].isUnique
          /\ heap[p].tableOID = heap[q].tableOID
          /\ heap[p].pred = heap[q].pred
          /\ StrictPrefix(heap[p], heap[q]) \/ StrictPrefix(heap[q], heap[p])

\* C5: every returned pair (a, b) has a # b, a and b of the same table, the
\* same pred, and a.attrs a strict prefix of b.attrs; so (b, a) is not
\* returned with it.
C5_RedundantPairIsStrictPrefix ==
    \A k \in 1..Len(redundants) :
        LET a == redundants[k][1]
            b == redundants[k][2]
        IN  /\ a # b
            /\ heap[a].oid # heap[b].oid
            /\ heap[a].tableOID = heap[b].tableOID
            /\ heap[a].pred = heap[b].pred
            /\ StrictPrefix(heap[a], heap[b])
            /\ <<b, a>> \notin PairSet(redundants)

\* C5, the case: a pair was returned while two other candidates of one table
\* have the same attributes, or the same attributes up to the predicate.
C5_Witness ==
    /\ HasRedundants
    /\ Len(redundants) >= 1
    /\ \E p, q \in Loaded :
          /\ p # q
          /\ isCandidate(heap[p]) /\ isCandidate(heap[q])
          /\ heap[p].tableOID = heap[q].tableOID
          /\ heap[p].attrs = heap[q].attrs

\* The indexes that make a redundant: candidates of a's table, other than a.
Subsumers(a) ==
    {b \in Loaded :
        /\ b # a
        /\ isCandidate(heap[b])
        /\ heap[b].tableOID = heap[a].tableOID
        /\ heap[b].pred = heap[a].pred
        /\ StrictPrefix(heap[a], heap[b])}

\* C6: for every non-unique, non-primary index a, at most one returned pair
\* begins with a; one does exactly when another candidate of a's table makes a
\* redundant, and its second element is the first such index in the scan order
\* of the table's group (the order of the collection).
C6_FirstSubsumerReported ==
    HasRedundants =>
        \A a \in {p \in Loaded : isCandidate(heap[p])} :
            LET ks == {k \in 1..Len(redundants) : redundants[k][1] = a} IN
            /\ Cardinality(ks) <= 1
            /\ Cardinality(ks) = 1 <=> Subsumers(a) # {}
            /\ \A k \in ks :
                  /\ redundants[k][2] \in Subsumers(a)
                  /\ \A b \in Subsumers(a) :
                        PosIn(dbIndexes, redundants[k][2]) <= PosIn(dbIndexes, b)

\* C6, the case: an index with two subsumers, reported with the one that
\* comes first, which is not the one with the fewest attributes.
C6_Witness ==
    /\ HasRedundants
    /\ \E k \in 1..Len(redundants) :
          /\ Cardinality(Subsumers(redundants[k][1])) = 2
          /\ \E b \in Subsumers(redundants[k][1]) :
                Len(heap[b].attrs) < Len(heap[redundants[k][2]].attrs)

\* Permutations of the slice xs.
Orderings(xs) ==
    {[i \in 1..Len(xs) |-> xs[f[i]]] :
        f \in {g \in [1..Len(xs) -> 1..Len(xs)] :
                 \A i, j \in 1..Len(xs) : g[i] = g[j] => i = j}}

\* C7: findRedundantIndexPairs returns the same set of pairs for every order
\* of the collection and every iteration order of the per-table map.
C7_PairsIndependentOfOrder ==
    HasRedundants =>
        \A xs \in Orderings(dbIndexes) :
            \A order \in MapOrders(tablesOf(heap, xs)) :
                PairSet(findRedundantIndexPairs(heap, xs, order)) = PairSet(redundants)

\* C8: findUnusedIndexes returns exactly the indexes with numScans <= cutoff,
\* each once and in the order of the collection.
C8_UnusedIsScansAtMostCutoff ==
    HasUnused =>
        /\ Range(unused) = {p \in Loaded : heap[p].numScans <= cutoff}
        /\ \A i, j \in 1..Len(unused) :
              i < j => PosIn(dbIndexes, unused[i]) < PosIn(dbIndexes, unused[j])

\* C8, the case: an index scanned cutoff times is returned after one scanned
\* cutoff + 1 times was left out.
C8_Witness ==
    /\ HasUnused
    /\ \E p, q \in Loaded :
          /\ heap[p].numScans = cutoff + 1
          /\ heap[q].numScans = cutoff
          /\ p < q
          /\ p \notin Range(unused)
          /\ q \in Range(unused)

\* C9: the relevant-unused list holds exactly the indexes of the unused list
\* that are not unique without being primary, whose size is at least
\* MinIndexSize and whose numRows is at least MinIndexRowCount, each once.
C9_RelevantUnusedMembers ==
    HasRelevantUnused =>
        /\ Range(relevantUnused) =
              {p \in Range(unused) :
                  /\ ~(heap[p].isUnique /\ ~heap[p].isPrimary)
                  /\ heap[p].size >= minIndexSize * MiB
                  /\ heap[p].numRows >= minIndexRows}
        /\ Cardinality(Range(relevantUnused)) = Len(relevantUnused)

\* C9, the case: a unique, non-primary index never scanned, large and with
\* rows enough, is left out; a primary key is kept.
C9_Witness ==
    /\ HasRelevantUnused
    /\ \E p \in Range(unused) \ Range(relevantUnused) :
          /\ heap[p].isUnique /\ ~heap[p].isPrimary
          /\ heap[p].numScans = 0
          /\ heap[p].size >= minIndexSize * MiB
          /\ heap[p].numRows >= minIndexRows
    /\ \E p \in Range(relevantUnused) : heap[p].isPrimary

\* C10: in the relevant-unused list every non-primary index comes before
\* every primary one, and sizes do not increase within the non-primary and
\* within the primary indexes; the comparator is a strict weak order.
C10_RelevantUnusedOrder ==
    /\ HasRelevantUnused =>
          \A i, j \in 1..Len(relevantUnused) :
              i < j =>
                  LET a == heap[relevantUnused[i]]
                      b == heap[relevantUnused[j]]
                  IN  /\ a.isPrimary => b.isPrimary
                      /\ a.isPrimary = b.isPrimary => a.size >= b.size
    /\ pc = "FormatUnusedIndexes" =>
       LET S == Range(heap)
           inc(a, b) == ~unusedLess(a, b) /\ ~unusedLess(b, a)
       IN  /\ \A a \in S : ~unusedLess(a, a)
           /\ \A a, b, c \in S : unusedLess(a, b) /\ unusedLess(b, c) => unusedLess(a, c)
           /\ \A a, b, c \in S : inc(a, b) /\ inc(b, c) => inc(a, c)

\* C10, the case: non-primary A of 5 MiB, non-primary B of 50 MiB and primary
\* C of 100 MiB, unused in this order, are listed B, A, C.
C10_Witness ==
    /\ HasRelevantUnused
    /\ unused = <<1, 2, 3>>
    /\ relevantUnused = <<2, 1, 3>>
    /\ ~heap[1].isPrimary /\ heap[1].size = 5 * MiB
    /\ ~heap[2].isPrimary /\ heap[2].size = 50 * MiB
    /\ heap[3].isPrimary /\ heap[3].size = 100 * MiB

\* The report has sorted the sets of duplicates.
HasSortedSets ==
    pc \in {"FormatRedundantIndexPairs", "NumUnusedIndexes", "FormatUnusedIndexes", "done"}

\* The first member of the set s of duplicates.
FirstMember(s) == heap[arr[s.lo]]

\* The set s comes before the set t: by the name of the table, then by the
\* name of the first member.
SetBefore(s, t) ==
    \/ StrLess(FirstMember(s).tableName, FirstMember(t).tableName)
    \/ /\ FirstMember(s).tableName = FirstMember(t).tableName
       /\ StrLess(FirstMember(s).name, FirstMember(t).name)

\* C11: after sortIndexSetsByName the sets of duplicates are in the order of
\* the names of their tables ascending, those of one table in the order of the
\* names of their first members ascending; the comparator of the sort puts a
\* set s before a set t exactly when the table of s has the smaller name, or
\* the tables have the same name and the first member of s the smaller name.
C11_SetsOrderedByTableName ==
    HasSortedSets =>
        /\ \A i, j \in 1..Len(duplicates) :
              i < j => ~SetBefore(duplicates[j], duplicates[i])
        /\ \A i, j \in 1..Len(duplicates) :
              setLess(FirstMember(duplicates[i]), FirstMember(duplicates[j]))
                  <=> SetBefore(duplicates[i], duplicates[j])

\* The members of the set s of duplicates after the step.
MembersNext(s) == SubSeq(arr', s.lo, s.hi)

\* C12: sortIndexSetsByName leaves the sets what they were: as many sets after
\* it as before, every set with the members it had, no set new; and the
\* members of every set are in the order of their names descending.
C12_SortKeepsMembers ==
    [][pc = "FormatDuplicateIndexSets" =>
          /\ Len(duplicates') = Len(duplicates)
          /\ {Range(MembersNext(duplicates'[i])) : i \in 1..Len(duplicates')}
                = {MemberSet(duplicates[i]) : i \in 1..Len(duplicates)}
          /\ \A i \in 1..Len(duplicates') :
                /\ Len(MembersNext(duplicates'[i]))
                      = Cardinality(Range(MembersNext(duplicates'[i])))
                /\ \A k, l \in 1..Len(MembersNext(duplicates'[i])) :
                      k < l => StrLess(heap[MembersNext(duplicates'[i])[l]].name,
                                       heap[MembersNext(duplicates'[i])[k]].name)]_vars

\* The sort has put the three members of a set, left by bisectIndexes in the
\* order 2, 3, 1, in the order 1, 2, 3, next to an index with no duplicate.
C12_Witness ==
    /\ HasSortedSets
    /\ Len(catalog) = 4
    /\ Len(duplicates) = 1
    /\ Members(duplicates[1]) = <<1, 2, 3>>
    /\ StrLess(heap[3].name, heap[2].name)
    /\ StrLess(heap[2].name, heap[1].name)

\* How many times the pair p is in the sequence a of pairs.
Count(a, p) == Cardinality({i \in 1..Len(a) : a[i] = p})

\* C13: sortIndexPairsBySize gives a permutation of the pairs it is given,
\* no pair changed, in which the size of the first (subsumed) index of the
\* pairs does not increase.
C13_PairsSortedBySize ==
    [][pc = "FormatRedundantIndexPairs" =>
          /\ Len(redundants') = Len(redundants)
          /\ \A p \in Range(redundants) \cup Range(redundants') :
                Count(redundants', p) = Count(redundants, p)
          /\ \A k, l \in 1..Len(redundants') :
                k < l => heap[redundants'[k][1]].size >= heap[redundants'[l][1]].size]_vars

\* The pairs (1, 3) and (2, 3), found in that order, are sorted into the
\* order (2, 3), (1, 3): index 2 is larger than index 1.
C13_Witness ==
    /\ pc = "NumUnusedIndexes"
    /\ redundants = <<(<<2, 3>>), (<<1, 3>>)>>
    /\ heap[2].size > heap[1].size

\* The Index struct at p has not as many attrs as numColumns says.
Malformed(p) == Len(heap[p].attrs) # heap[p].numColumns

\* C14: when an index of the collection has len(attrs) different from
\* numColumns, no detector returns a result: each fails with an error, so
\* that main never holds duplicates, unused indexes or redundant pairs.
C14_MalformedIndexDescriptor ==
    (\E p \in Loaded : Malformed(p)) =>
        /\ ~HasDuplicates
        /\ duplicates = << >> /\ unused = << >> /\ redundants = << >>

\* C15: the detectors and the report do not change the collection the DB has
\* cached: once loaded, db.indexes holds the Index structs of the rows of the
\* catalog in the order they were loaded in, whatever findDuplicateIndexSets
\* and the sorts of the report have swapped in their own slices.
C15_CacheNotMutated ==
    dbIndexes # << >> =>
        /\ dbIndexes = [i \in 1..Len(catalog) |-> i]
        /\ \A i \in 1..Len(catalog) : heap[i].oid = catalog[i].oid

\* findDuplicateIndexSets has swapped the elements of its slice, and the
\* report has sorted them: they are not in the order of db.indexes.
C15_Witness ==
    /\ HasSortedSets
    /\ Len(dbIndexes) = 4
    /\ Len(duplicates) = 2
    /\ arr # dbIndexes
    /\ dbIndexes = <<1, 2, 3, 4>>

\* main has the results of the detectors run as goroutines.
Joined == pc = "FormatDuplicateIndexSets" /\ \A d \in Detectors : dpc[d] = "done"

\* C16: when the detectors run as goroutines on the one DB they share no
\* mutable state: no detector assigns a variable (db.indexes) that another
\* detector reads or assigns, and main gets from each the result the detector
\* gives alone on the collection of the DB.
C16_NoSharedMutableState ==
    /\ \A d \in dbWrites : (dbReads \cup dbWrites) \ {d} = {}
    /\ Joined =>
          /\ arr = findDuplicateIndexSets(heap, dbIndexes).arr
          /\ duplicates = findDuplicateIndexSets(heap, dbIndexes).answer
          /\ unused = findUnusedIndexes(heap, dbIndexes, cutoff)
          /\ \E order \in MapOrders(tablesOf(heap, dbIndexes)) :
                redundants = findRedundantIndexPairs(heap, dbIndexes, order)

\* C17: the result of allIndexes is cached: loadIndexes runs in the first
\* call, the one of main, and in no call after it, whatever the first load
\* returned, so that every detector works on the collection main loaded.
C17_LoadedOnce == pc # "main" => numLoads = 1

\* C18: findDuplicateIndexSets terminates.  Every pass of its loop puts the
\* pivot indexes[0] into the part of the equivalent indexes, so that the rest
\* is shorter than indexes was (at most len(indexes) passes), and leaves the
\* sets emitted before it as they are; a loop that has begun ends with the
\* return to main.
C18_DuplicatesTerminate ==
    /\ [][pc = "bisectIndexes" /\ numIndexes > 0 =>
            /\ numIndexes' < numIndexes
            /\ arr[1] \in Range(SubSeq(arr', numIndexes' + 1, numIndexes))
            /\ SubSeq(arr', numIndexes + 1, Len(arr)) = SubSeq(arr, numIndexes + 1, Len(arr))
            /\ \A k \in 1..Len(answer) :
                  /\ answer'[k] = answer[k]
                  /\ MembersNext(answer[k]) = Members(answer[k])]_vars
    /\ (pc = "bisectIndexes") ~> (pc = "findUnusedIndexes")

\* The first pass has emitted a set of two; two more passes, the second with
\* a swap, have emitted a second set and the loop has ended.
C18_Witness ==
    /\ pc = "findUnusedIndexes"
    /\ Len(arr) = 4
    /\ duplicates = <<[lo |-> 3, hi |-> 4], [lo |-> 1, hi |-> 2]>>

====
